---- MODULE Spec2Model ----
(***************************************************************************)
(* Device manager of runtime-rs (crates/hypervisor/src/device_manager.rs)  *)
(* with the device kinds it drives (device/generic.rs, device/block.rs)    *)
(* and the drive naming helper (utils.rs).                                 *)
(*                                                                         *)
(* try_add_device and try_remove_device take &mut self and are called with *)
(* the manager's write lock held, so each call is one atomic action.       *)
(***************************************************************************)
EXTENDS Integers, Sequences, FiniteSets, TLC

(***************************************************************************)
(* Bounds of the model.                                                    *)
(***************************************************************************)
\* an add that finds an existing record is explored while its count is below this
MaxAttach == 2
\* number of fresh ordinals block_index may hand out from a starting value
MaxBlockIndex == 2
\* ordinals the allocator hands out when it is driven on its own
MaxOrdinal == 3
\* the drive names of the indexes up to this one are all computed
MaxDriveIndex == 53

(***************************************************************************)
(* u64 values.  TLC integers are 32 bits wide, so a u64 is kept as three   *)
(* limbs <<a, b, c>> = a * 2^62 + b * 2^31 + c with a in 0..3 and b, c in  *)
(* 0..2^31-1.                                                              *)
(***************************************************************************)
LimbMax == 1073741824 + 1073741823

U64(n) == <<0, 0, n>>

U64Max == <<3, LimbMax, LimbMax>>

U64Inc(x) ==
    IF x[3] < LimbMax THEN <<x[1], x[2], x[3] + 1>>
    ELSE IF x[2] < LimbMax THEN <<x[1], x[2] + 1, 0>>
    ELSE <<x[1] + 1, 0, 0>>

U64Dec(x) ==
    IF x[3] > 0 THEN <<x[1], x[2], x[3] - 1>>
    ELSE IF x[2] > 0 THEN <<x[1], x[2] - 1, LimbMax>>
    ELSE <<x[1] - 1, LimbMax, LimbMax>>

U64Lt(x, y) ==
    \/ x[1] < y[1]
    \/ x[1] = y[1] /\ x[2] < y[2]
    \/ x[1] = y[1] /\ x[2] = y[2] /\ x[3] < y[3]

U64Le(x, y) == x = y \/ U64Lt(x, y)

\* `index as i32`: the low 32 bits, read as a signed number
AsI32(x) == IF x[2] % 2 = 0 THEN x[3] ELSE x[3] - LimbMax - 1

(***************************************************************************)
(* Option<T>: None, or the value itself.                                   *)
(***************************************************************************)
None == "None"
\* Option<u64>::None
NoU64 == <<>>

\* u64 attach counts and ordinals written as small numbers
Zero == U64(0)
One == U64(1)
Two == U64(2)

(***************************************************************************)
(* device/generic.rs: the attach counter of a device.                      *)
(***************************************************************************)
\* a counter without the std::u64::MAX arm, wrapping to 0
increase_attach_count_wrapping(count) ==
    IF count = Zero THEN [err |-> FALSE, skip |-> FALSE, count |-> U64Inc(count)]
    ELSE IF count = U64Max THEN [err |-> FALSE, skip |-> TRUE, count |-> Zero]
    ELSE [err |-> FALSE, skip |-> TRUE, count |-> U64Inc(count)]

\* a counter that never reports that the device is attached already
increase_attach_count_noskip(count) ==
    IF count = U64Max THEN [err |-> TRUE, skip |-> FALSE, count |-> count]
    ELSE [err |-> FALSE, skip |-> FALSE, count |-> U64Inc(count)]

\* a counter whose `self.attach_count += 1` is lost
increase_attach_count_lost(count) ==
    IF count = U64Max THEN [err |-> TRUE, skip |-> FALSE, count |-> count]
    ELSE [err |-> FALSE, skip |-> count # Zero, count |-> count]

\* Result<bool> and the counter after the call
increase_attach_count(count) ==
    IF count = Zero THEN [err |-> FALSE, skip |-> FALSE, count |-> U64Inc(count)]
    ELSE IF count = U64Max THEN [err |-> TRUE, skip |-> FALSE, count |-> count]
    ELSE [err |-> FALSE, skip |-> TRUE, count |-> U64Inc(count)]

\* a counter without the 0 arm, wrapping to u64::MAX
decrease_attach_count_wrapping(count) ==
    IF count = Zero THEN [err |-> FALSE, skip |-> TRUE, count |-> U64Max]
    ELSE IF count = One THEN [err |-> FALSE, skip |-> FALSE, count |-> U64Dec(count)]
    ELSE [err |-> FALSE, skip |-> TRUE, count |-> U64Dec(count)]

\* the one arm without its `self.attach_count -= 1`
decrease_attach_count_stuck(count) ==
    IF count = Zero THEN [err |-> TRUE, skip |-> FALSE, count |-> count]
    ELSE IF count = One THEN [err |-> FALSE, skip |-> FALSE, count |-> count]
    ELSE [err |-> FALSE, skip |-> TRUE, count |-> U64Dec(count)]

decrease_attach_count(count) ==
    IF count = Zero THEN [err |-> TRUE, skip |-> FALSE, count |-> count]
    ELSE IF count = One THEN [err |-> FALSE, skip |-> FALSE, count |-> U64Dec(count)]
    ELSE [err |-> FALSE, skip |-> TRUE, count |-> U64Dec(count)]

(***************************************************************************)
(* utils.rs: get_virt_drive_name.                                          *)
(***************************************************************************)
PREFIX == "vd"
disk_name_len == 32
base == 26
suff_len == disk_name_len - Len(PREFIX)

Letters == <<"a", "b", "c", "d", "e", "f", "g", "h", "i", "j", "k", "l", "m",
             "n", "o", "p", "q", "r", "s", "t", "u", "v", "w", "x", "y", "z">>

\* the while loop: disk_letters[i] = b'a' + index % base; index = index / base - 1
RECURSIVE drive_letters_loop(_, _)
drive_letters_loop(index, disk_letters) ==
    IF Len(disk_letters) < suff_len /\ index >= 0
    THEN drive_letters_loop((index \div base) - 1,
                            Append(disk_letters, Letters[(index % base) + 1]))
    ELSE [index |-> index, disk_letters |-> disk_letters]

\* disk_letters.reverse() followed by the concatenation into a string
RECURSIVE reverse_concat(_)
reverse_concat(letters) ==
    IF letters = <<>> THEN ""
    ELSE letters[Len(letters)] \o reverse_concat(SubSeq(letters, 1, Len(letters) - 1))

\* a rendering in plain base 26: index = index / base, until nothing is left
RECURSIVE drive_letters_plain(_, _)
drive_letters_plain(index, disk_letters) ==
    IF index \div base = 0 THEN Append(disk_letters, Letters[(index % base) + 1])
    ELSE drive_letters_plain(index \div base,
                             Append(disk_letters, Letters[(index % base) + 1]))

get_virt_drive_name_plain(index) ==
    IF index < 0 THEN [err |-> TRUE, name |-> ""]
    ELSE [err |-> FALSE, name |-> PREFIX \o reverse_concat(drive_letters_plain(index, <<>>))]

\* the function without its test for a negative index
get_virt_drive_name_unsigned(index) ==
    LET r == drive_letters_loop(index, <<>>)
    IN  IF r.index >= 0 THEN [err |-> TRUE, name |-> ""]
        ELSE [err |-> FALSE, name |-> PREFIX \o reverse_concat(r.disk_letters)]

get_virt_drive_name(index) ==
    IF index < 0 THEN [err |-> TRUE, name |-> ""]
    ELSE LET r == drive_letters_loop(index, <<>>)
         IN  IF r.index >= 0 THEN [err |-> TRUE, name |-> ""]
             ELSE [err |-> FALSE, name |-> PREFIX \o reverse_concat(r.disk_letters)]

(***************************************************************************)
(* device_manager.rs: the block ordinal allocator.                         *)
(***************************************************************************)
\* released_index.sort_by(|a, b| b.cmp(a)): insertion into a descending list
RECURSIVE sort_descending(_)
sort_descending(s) ==
    IF s = <<>> THEN <<>>
    ELSE LET m == CHOOSE i \in 1..Len(s) : \A j \in 1..Len(s) : U64Le(s[j], s[i])
         IN  <<s[m]>> \o sort_descending(SubSeq(s, 1, m - 1) \o SubSeq(s, m + 1, Len(s)))

\* a pop of the first element of the list
get_and_set_sandbox_block_index_first(block_index, released_index) ==
    IF released_index # <<>>
    THEN [index |-> released_index[1],
          block_index |-> block_index,
          released_index |-> SubSeq(released_index, 2, Len(released_index))]
    ELSE [index |-> block_index,
          block_index |-> U64Inc(block_index),
          released_index |-> released_index]

\* an allocator that never looks at the released ordinals
get_and_set_sandbox_block_index_fresh(block_index, released_index) ==
    [index |-> block_index,
     block_index |-> U64Inc(block_index),
     released_index |-> released_index]

\* an allocator that takes block_index back when it recycles an ordinal
get_and_set_sandbox_block_index_rewind(block_index, released_index) ==
    IF released_index # <<>>
    THEN [index |-> released_index[Len(released_index)],
          block_index |-> U64Dec(block_index),
          released_index |-> SubSeq(released_index, 1, Len(released_index) - 1)]
    ELSE [index |-> block_index,
          block_index |-> U64Inc(block_index),
          released_index |-> released_index]

\* an allocator that hands out a released ordinal and leaves it in the list
get_and_set_sandbox_block_index_keep(block_index, released_index) ==
    IF released_index # <<>>
    THEN [index |-> released_index[Len(released_index)],
          block_index |-> block_index,
          released_index |-> released_index]
    ELSE [index |-> block_index,
          block_index |-> U64Inc(block_index),
          released_index |-> released_index]

\* Vec::pop takes the last element
get_and_set_sandbox_block_index(block_index, released_index) ==
    IF released_index # <<>>
    THEN [index |-> released_index[Len(released_index)],
          block_index |-> block_index,
          released_index |-> SubSeq(released_index, 1, Len(released_index) - 1)]
    ELSE [index |-> block_index,
          block_index |-> U64Inc(block_index),
          released_index |-> released_index]

\* a rollback that forgets the ordinal
unset_sandbox_block_index_lost(released_index, index) == released_index

unset_sandbox_block_index(released_index, index) ==
    sort_descending(Append(released_index, index))

(***************************************************************************)
(* Inputs.                                                                 *)
(***************************************************************************)
\* ids the random generator can draw (format!("{:x}", rand_bytes))
Ids == {"1f", "a3"}

DevTypes == {"b", "c"}
Majors == {-1, 0, 8}
Minors == {0}
Bdfs == {None, "0000:01:00.0"}
HostPaths == {"/dev/loop0"}
ContainerPaths == {"/dev/xvda"}

\* GenericConfig as a caller hands it to try_add_device: id empty, pci_addr
\* and virt_path defaulted, no "block-driver" option
DevInfos ==
    [host_path : HostPaths, container_path : ContainerPaths, dev_type : DevTypes,
     major : Majors, minor : Minors, id : {""}, bdf : Bdfs,
     block_driver_option : {None}, pci_addr : {None}, virt_path : {None}]

\* oci::LinuxDevice as the container's spec lists it: path, type, major, minor
LinuxDevices ==
    [path : ContainerPaths \cup {""}, type : {"b", "c", "u", "p", "x"},
     major : {0, 8}, minor : Minors]

\* what the host answers for /sys/dev/{char,block}/major:minor/uevent
Sysfs ==
    {[stat |-> "NotFound", devname |-> None],
     [stat |-> "Error", devname |-> None],
     [stat |-> "Ok", devname |-> None],
     [stat |-> "Ok", devname |-> "sda"]}

\* the random ids of the five attempts of new_device_id
IdAttempts == 5
Draws == {[k \in 1..IdAttempts |-> IF k = 1 THEN a ELSE b] : a, b \in Ids}

(***************************************************************************)
(* device_manager.rs: constants and helpers.                               *)
(***************************************************************************)
VIRTIO_MMIO == "virtio-mmio"
VIRTIO_BLOCK == "virtio-blk"
SYS_DEV_PREFIX == "/sys/dev"

\* no descriptor, no device: what an Err carries
NoDevInfo == [absent |-> TRUE]
NoDevice == [absent |-> TRUE]

allow_device_type == {"c", "b", "u", "p"}

\* a constructor that takes every descriptor
new_device_info_unchecked(device, bdf) ==
    [err |-> FALSE,
     dev_info |-> [host_path |-> "", container_path |-> device.path,
                   dev_type |-> device.type, major |-> device.major,
                   minor |-> device.minor, id |-> "", bdf |-> bdf,
                   block_driver_option |-> None, pci_addr |-> None, virt_path |-> None]]

\* Result<GenericConfig>: host_path empty, pci_addr and virt_path defaulted
new_device_info(device, bdf) ==
    IF device.type \notin allow_device_type \/ device.path = ""
    THEN [err |-> TRUE, dev_info |-> NoDevInfo]
    ELSE [err |-> FALSE,
          dev_info |-> [host_path |-> "", container_path |-> device.path,
                        dev_type |-> device.type, major |-> device.major,
                        minor |-> device.minor, id |-> "", bdf |-> bdf,
                        block_driver_option |-> None, pci_addr |-> None,
                        virt_path |-> None]]

\* a classification that knows no block device
is_block_never(dev_info) == FALSE

is_block(dev_info) == dev_info.dev_type = "b"

\* a resolver that takes a missing uevent file for an error
get_host_path_strict(dev_info, sysfs) ==
    IF dev_info.container_path = "" THEN [err |-> TRUE, path |-> ""]
    ELSE IF dev_info.dev_type \notin {"c", "u", "b"} THEN [err |-> FALSE, path |-> ""]
    ELSE IF sysfs.stat # "Ok" \/ sysfs.devname = None THEN [err |-> TRUE, path |-> ""]
    ELSE [err |-> FALSE, path |-> "/dev/" \o sysfs.devname]

get_host_path(dev_info, sysfs) ==
    IF dev_info.container_path = "" THEN [err |-> TRUE, path |-> ""]
    ELSE IF dev_info.dev_type \notin {"c", "u", "b"} THEN [err |-> FALSE, path |-> ""]
    ELSE IF sysfs.stat = "NotFound" THEN [err |-> FALSE, path |-> dev_info.container_path]
    ELSE IF sysfs.stat = "Error" THEN [err |-> TRUE, path |-> ""]
    ELSE IF sysfs.devname = None THEN [err |-> TRUE, path |-> ""]
    ELSE [err |-> FALSE, path |-> "/dev/" \o sysfs.devname]

\* `for dev in self.devices.values()` with an early return: the first match in
\* the map's iteration order
FirstInOrder(order, matches) ==
    LET at == {i \in 1..Len(order) : order[i] \in matches}
    IN  IF at = {} THEN None
        ELSE order[CHOOSE i \in at : \A j \in at : i <= j]

find_device_by_major_minor(devs, order, major, minor) ==
    FirstInOrder(order, {id \in DOMAIN devs :
        devs[id].device_info.major = major /\ devs[id].device_info.minor = minor})

find_device_by_bdf(devs, order, bdf) ==
    FirstInOrder(order, {id \in DOMAIN devs : devs[id].device_info.bdf = bdf})

find_device_by_host_path(devs, order, host_path) ==
    FirstInOrder(order, {id \in DOMAIN devs : devs[id].device_info.host_path = host_path})

\* a lookup that never finds anything
find_device_none(devs, order, major, minor, host_path, bdf) == None

\* a lookup by host path alone
find_device_host_path_only(devs, order, major, minor, host_path, bdf) ==
    find_device_by_host_path(devs, order, host_path)

\* a lookup that goes on to the next key when one finds nothing
find_device_fallback(devs, order, major, minor, host_path, bdf) ==
    LET by_numbers == IF major >= 0 /\ minor >= 0
                      THEN find_device_by_major_minor(devs, order, major, minor) ELSE None
        by_bdf == IF bdf # None THEN find_device_by_bdf(devs, order, bdf) ELSE None
    IN  IF by_numbers # None THEN by_numbers
        ELSE IF by_bdf # None THEN by_bdf
        ELSE find_device_by_host_path(devs, order, host_path)

find_device(devs, order, major, minor, host_path, bdf) ==
    IF major >= 0 /\ minor >= 0 THEN find_device_by_major_minor(devs, order, major, minor)
    ELSE IF bdf # None THEN find_device_by_bdf(devs, order, bdf)
    ELSE find_device_by_host_path(devs, order, host_path)

RECURSIVE new_device_id_from(_, _, _)
new_device_id_from(devs, draws, k) ==
    IF k > IdAttempts THEN [err |-> TRUE, id |-> ""]
    ELSE IF draws[k] \notin DOMAIN devs THEN [err |-> FALSE, id |-> draws[k]]
    ELSE new_device_id_from(devs, draws, k + 1)

\* an id generator that takes its first draw unseen
new_device_id_first(devs, draws) == [err |-> FALSE, id |-> draws[1]]

new_device_id(devs, draws) == new_device_id_from(devs, draws, 1)

(***************************************************************************)
(* device/generic.rs and device/block.rs: the two device kinds.            *)
(***************************************************************************)
GenericDevice_new(dev_info) ==
    [kind |-> "Generic", id |-> dev_info.id, device_info |-> dev_info,
     attach_count |-> Zero, drive |-> None]

BlockDevice_new(dev_info) ==
    [kind |-> "Block", id |-> dev_info.id, device_info |-> dev_info,
     attach_count |-> Zero,
     drive |-> [id |-> dev_info.id, path_on_host |-> dev_info.host_path, index |-> Zero]]

\* attach: hv_ok is the answer of Hypervisor::add_device, asked by Block alone
GenericDevice_attach(dev, da, hv_ok) ==
    LET inc == increase_attach_count(dev.attach_count)
    IN  IF inc.err THEN [err |-> TRUE, dev |-> dev, hv |-> "none"]
        ELSE [err |-> ~inc.skip,
              dev |-> [dev EXCEPT !.attach_count = inc.count],
              hv |-> "none"]

\* device_info is a clone of the base's GenericConfig: the virt_path written
\* into it is dropped with it at the end of the call
BlockDevice_attach(dev, da, hv_ok) ==
    LET indexed == IF da.index # NoU64 THEN [dev EXCEPT !.drive.index = da.index] ELSE dev
        device_info ==
            IF /\ dev.device_info.block_driver_option # None
               /\ dev.device_info.block_driver_option # "nvdimm"
               /\ da.drive_name # None
            THEN [dev.device_info EXCEPT !.virt_path = "/dev/" \o da.drive_name]
            ELSE dev.device_info
    IN  [err |-> ~hv_ok, dev |-> indexed, hv |-> IF hv_ok THEN "add_ok" ELSE "add_err"]

Device_attach(dev, da, hv_ok) ==
    IF dev.kind = "Block" THEN BlockDevice_attach(dev, da, hv_ok)
    ELSE GenericDevice_attach(dev, da, hv_ok)

GenericDevice_detach(dev, hv_ok) ==
    LET dec == decrease_attach_count(dev.attach_count)
    IN  IF dec.err THEN [err |-> TRUE, dev |-> dev, hv |-> "none"]
        ELSE [err |-> ~dec.skip,
              dev |-> [dev EXCEPT !.attach_count = dec.count],
              hv |-> "none"]

BlockDevice_detach(dev, hv_ok) ==
    [err |-> ~hv_ok, dev |-> dev, hv |-> IF hv_ok THEN "remove_ok" ELSE "remove_err"]

Device_detach(dev, hv_ok) ==
    IF dev.kind = "Block" THEN BlockDevice_detach(dev, hv_ok)
    ELSE GenericDevice_detach(dev, hv_ok)

(***************************************************************************)
(* State.                                                                  *)
(***************************************************************************)
VARIABLES
    block_driver,     \* DeviceManager.block_driver
    devices,          \* DeviceManager.devices: id -> device
    block_index,      \* DeviceManager.block_index
    released_index,   \* DeviceManager.released_index
    iter_order,       \* the order in which devices.values() yields the records
    ghost,            \* history, per record: hypervisor adds seen, net Ok adds
    last,             \* history: the last call and what it returned
    tasks,            \* the callers of add_device: where each one is in its call
    lock,             \* the holder of the write lock of RwLock<DeviceManager>
    outer             \* per task: the handler it runs and how far that has come

vars == <<block_driver, devices, block_index, released_index, iter_order, ghost, last,
          tasks, lock, outer>>

manager == <<block_driver, devices, block_index, released_index, iter_order>>

NoCall ==
    [op |-> "none", ok |-> TRUE, err |-> "", id |-> "", dev_info |-> NoDevInfo,
     pre_count |-> NoU64, count |-> NoU64, index |-> NoU64, hv |-> "none",
     detach |-> FALSE, pre_net |-> 0]

\* HashMap iteration order: unspecified, and the same from one walk to the next
\* as long as the map is not written
Orders(keys) ==
    {o \in [1..Cardinality(keys) -> keys] : \A i, j \in DOMAIN o : i # j => o[i] # o[j]}
\* insert of a new key may rehash; insert of a present key and remove move nothing
OrderAfterInsert(order, keys, k) ==
    IF k \in keys THEN {order} ELSE Orders(keys \cup {k})
OrderAfterRemove(order, k) ==
    SelectSeq(order, LAMBDA x : x # k)

\* f without the key k, and f with the key k set to v
MapRemove(f, k) == [x \in DOMAIN f \ {k} |-> f[x]]
MapInsert(f, k, v) == [x \in DOMAIN f \cup {k} |-> IF x = k THEN v ELSE f[x]]

\* the ordinals block_index may take: MaxBlockIndex fresh ones from a start,
\* which is 0, or 2^31 - 1 or 2^31 where `index as i32` turns negative
StartIndexes == {Zero, U64(LimbMax), U64Inc(U64(LimbMax))}
RECURSIVE U64Plus(_, _)
U64Plus(x, n) == IF n = 0 THEN x ELSE U64Plus(U64Inc(x), n - 1)
FreshOrdinalAllowed ==
    \E s \in StartIndexes : U64Le(s, block_index) /\ U64Lt(block_index, U64Plus(s, MaxBlockIndex))

\* the block drivers a configuration may name
BlockDrivers == {VIRTIO_MMIO, VIRTIO_BLOCK, "nvdimm", ""}

\* a constructor that stores another driver than the one it was given
DeviceManager_new_other(driver) ==
    IF driver = VIRTIO_MMIO
    THEN [err |-> FALSE, block_driver |-> VIRTIO_BLOCK, devices |-> << >>,
          block_index |-> Zero, released_index |-> <<>>]
    ELSE [err |-> TRUE, block_driver |-> "", devices |-> << >>,
          block_index |-> Zero, released_index |-> <<>>]

\* Result<Self>: the error, or the fields of the manager
DeviceManager_new(driver) ==
    IF driver = VIRTIO_MMIO
    THEN [err |-> FALSE, block_driver |-> driver, devices |-> << >>,
          block_index |-> Zero, released_index |-> <<>>]
    ELSE [err |-> TRUE, block_driver |-> "", devices |-> << >>,
          block_index |-> Zero, released_index |-> <<>>]

\* callers of add_device besides the one the atomic actions stand for
Tasks == {"t1", "t2", "t3"}
IdleTask ==
    [pc |-> "idle", ok |-> FALSE, err |-> "", id |-> "", dev_info |-> NoDevInfo,
     first |-> FALSE, index |-> NoU64, hv |-> "none"]

Init ==
    LET m == DeviceManager_new(VIRTIO_MMIO)
    IN  /\ ~m.err
        /\ block_driver = m.block_driver
        /\ devices = m.devices
        /\ block_index = m.block_index
        /\ released_index = m.released_index
        /\ iter_order = <<>>
        /\ ghost = << >>
        /\ last = NoCall
        /\ tasks = [t \in Tasks |-> IdleTask]
        /\ lock = None
        /\ outer = [t \in Tasks |-> "idle"]

\* try_remove_device never hands an ordinal back (only a failed attach does), so
\* every first add of a device takes a fresh ordinal and block_index grows with
\* each add/remove cycle: after 2^31 - 1 cycles the manager is empty again with
\* block_index = 2^31 - 1, and after one more with block_index = 2^31
InitChurned ==
    LET m == DeviceManager_new(VIRTIO_MMIO)
    IN  /\ ~m.err
        /\ block_driver = m.block_driver
        /\ devices = m.devices
        /\ block_index \in StartIndexes \ {Zero}
        /\ released_index = m.released_index
        /\ iter_order = <<>>
        /\ ghost = << >>
        /\ last = NoCall
        /\ tasks = [t \in Tasks |-> IdleTask]
        /\ lock = None
        /\ outer = [t \in Tasks |-> "idle"]

(***************************************************************************)
(* try_create_device: the resolved descriptor and the device, which is the  *)
(* record the lookup found or a new one.                                   *)
(***************************************************************************)
\* a trigger that looks at major alone
resolver_consulted_major_only(dev_info) == dev_info.major # 0

resolver_consulted(dev_info) == dev_info.major # 0 \/ dev_info.minor # 0

try_create_device(devs, order, driver, dev_info, sysfs, draws) ==
    LET path == IF resolver_consulted(dev_info) THEN get_host_path(dev_info, sysfs)
                ELSE [err |-> FALSE, path |-> dev_info.host_path]
        resolved == [dev_info EXCEPT !.host_path = path.path]
        found == find_device(devs, order, resolved.major, resolved.minor,
                             resolved.host_path, resolved.bdf)
        minted == new_device_id(devs, draws)
        with_id == [resolved EXCEPT !.id = minted.id]
        block_info == [with_id EXCEPT !.block_driver_option = driver]
    IN  IF path.err
        THEN [err |-> "Resolver", dev_info |-> dev_info, found |-> None, dev |-> NoDevice]
        ELSE IF found # None
        THEN [err |-> "", dev_info |-> resolved, found |-> found, dev |-> devs[found]]
        ELSE IF minted.err
        THEN [err |-> "IdExhausted", dev_info |-> resolved, found |-> None, dev |-> NoDevice]
        ELSE IF is_block(with_id)
        THEN [err |-> "", dev_info |-> block_info, found |-> None,
              dev |-> BlockDevice_new(block_info)]
        ELSE [err |-> "", dev_info |-> with_id, found |-> None,
              dev |-> GenericDevice_new(with_id)]

(***************************************************************************)
(* try_add_device.                                                         *)
(***************************************************************************)
NewGhost == [hv_adds |-> 0, net |-> 0]
GhostOf(id) == IF id \in DOMAIN ghost THEN ghost[id] ELSE NewGhost
GhostHv(g, hv) == IF hv \in {"add_ok", "add_err"} THEN [g EXCEPT !.hv_adds = @ + 1] ELSE g

\* the fields of a descriptor the lookup reads, after the resolver
IdentityOf(dev_info) ==
    IF dev_info = NoDevInfo THEN NoDevInfo
    ELSE [major |-> dev_info.major, minor |-> dev_info.minor, bdf |-> dev_info.bdf,
          host_path |-> dev_info.host_path]

AddReturn(ok, err, id, dev_info, pre_count, count, index, hv) ==
    [op |-> "add", ok |-> ok, err |-> err, id |-> id, dev_info |-> IdentityOf(dev_info),
     pre_count |-> pre_count, count |-> count, index |-> index, hv |-> hv,
     detach |-> FALSE, pre_net |-> GhostOf(id).net]

\* the part of try_add_device after increase_attach_count returned skip = false:
\* insert, take an ordinal, name the drive, attach, and roll back on failure
AddAttach(id, dev, dev_info, pre_count, hv_ok) ==
    LET inserted == MapInsert(devices, id, dev)
        alloc == get_and_set_sandbox_block_index(block_index, released_index)
        drive_name == get_virt_drive_name(AsI32(alloc.index))
        att == Device_attach(dev, [index |-> alloc.index, drive_name |-> drive_name.name], hv_ok)
        dec == decrease_attach_count(att.dev.attach_count)
    IN  /\ released_index = <<>> => FreshOrdinalAllowed
        /\ block_index' = alloc.block_index
        /\ UNCHANGED block_driver
        /\ \E order \in OrderAfterInsert(iter_order, DOMAIN devices, id) :
            IF drive_name.err
            THEN /\ devices' = inserted
                 /\ iter_order' = order
                 /\ released_index' = alloc.released_index
                 /\ ghost' = MapInsert(ghost, id, GhostOf(id))
                 /\ last' = AddReturn(FALSE, "DriveName", id, NoDevInfo, pre_count,
                                      dev.attach_count, alloc.index, "none")
            ELSE IF att.err /\ dec.err
            THEN /\ devices' = MapInsert(devices, id, att.dev)
                 /\ iter_order' = order
                 /\ released_index' = alloc.released_index
                 /\ ghost' = MapInsert(ghost, id, GhostHv(GhostOf(id), att.hv))
                 /\ last' = AddReturn(FALSE, "NotAttached", id, NoDevInfo, pre_count,
                                      att.dev.attach_count, alloc.index, att.hv)
            ELSE IF att.err
            THEN /\ devices' = MapRemove(inserted, id)
                 /\ iter_order' = OrderAfterRemove(order, id)
                 /\ released_index' =
                        unset_sandbox_block_index(alloc.released_index, alloc.index)
                 /\ ghost' = MapRemove(ghost, id)
                 /\ last' = AddReturn(FALSE, "AttachFailed", id, NoDevInfo, pre_count,
                                      dec.count, alloc.index, att.hv)
            ELSE /\ devices' = MapInsert(devices, id, att.dev)
                 /\ iter_order' = order
                 /\ released_index' = alloc.released_index
                 /\ ghost' = MapInsert(ghost, id,
                                 [GhostHv(GhostOf(id), att.hv) EXCEPT !.net = @ + 1])
                 /\ last' = AddReturn(TRUE, "", id, dev_info, pre_count,
                                      att.dev.attach_count, alloc.index, att.hv)

\* the part of try_add_device after try_create_device returned the device
AddDevice(id, dev, dev_info, hv_ok) ==
    LET inc == increase_attach_count(dev.attach_count)
    IN  IF inc.err
        THEN /\ UNCHANGED <<manager, ghost>>
             /\ last' = AddReturn(FALSE, "AttachOverflow", id, NoDevInfo,
                                  dev.attach_count, dev.attach_count, NoU64, "none")
        ELSE IF inc.skip
        THEN /\ devices' = [devices EXCEPT ![id].attach_count = inc.count]
             /\ ghost' = [ghost EXCEPT ![id].net = @ + 1]
             /\ UNCHANGED <<block_driver, block_index, released_index, iter_order>>
             /\ last' = AddReturn(TRUE, "", id, dev_info, dev.attach_count,
                                  inc.count, NoU64, "none")
        ELSE AddAttach(id, [dev EXCEPT !.attach_count = inc.count], dev_info,
                       dev.attach_count, hv_ok)

NoSysfs == [stat |-> "NotFound", devname |-> None]
\* the kernel numbers devices from 0: a negative major or minor has no entry
SysfsFor(dev_info) ==
    IF ~resolver_consulted(dev_info) THEN {NoSysfs}
    ELSE IF dev_info.major < 0 \/ dev_info.minor < 0
    THEN {y \in Sysfs : y.stat \in {"NotFound", "Error"}}
    ELSE Sysfs
NoDraws == CHOOSE d \in Draws : TRUE

\* the inputs a call reads: the sysfs answer when the resolver runs, the random
\* draws when an id is minted, the hypervisor's answer when a Block attaches
TryAddDevice(dev_info) ==
    /\ lock = None
    /\ UNCHANGED <<tasks, lock, outer>>
    /\ \E sysfs \in SysfsFor(dev_info) :
         LET probe == try_create_device(devices, iter_order, block_driver, dev_info, sysfs, NoDraws)
             mints == probe.err # "Resolver" /\ probe.found = None
         IN  \E draws \in (IF mints THEN Draws ELSE {NoDraws}) :
               LET c == try_create_device(devices, iter_order, block_driver, dev_info, sysfs, draws)
               IN  IF c.err # ""
                   THEN /\ UNCHANGED <<manager, ghost>>
                        /\ last' = AddReturn(FALSE, c.err, "", NoDevInfo, NoU64, NoU64,
                                             NoU64, "none")
                   ELSE /\ c.found # None => U64Lt(c.dev.attach_count, U64(MaxAttach))
                        /\ \E hv_ok \in (IF c.found = None /\ c.dev.kind = "Block"
                                         THEN BOOLEAN ELSE {TRUE}) :
                               AddDevice(c.dev.id, c.dev, c.dev_info, hv_ok)

(***************************************************************************)
(* try_remove_device.                                                      *)
(***************************************************************************)
RemoveReturn(ok, err, id, pre_count, count, index, hv, detach) ==
    [op |-> "remove", ok |-> ok, err |-> err, id |-> id, dev_info |-> NoDevInfo,
     pre_count |-> pre_count, count |-> count, index |-> index, hv |-> hv,
     detach |-> detach, pre_net |-> GhostOf(id).net]

\* the ordinal a device holds: BlockConfig.index, which Generic has not
DriveIndex(dev) == IF dev.kind = "Block" THEN dev.drive.index ELSE NoU64

\* an unknown id taken for removed already
RemoveUnknown_silent(device_id) ==
    /\ UNCHANGED <<manager, ghost>>
    /\ last' = RemoveReturn(TRUE, "", device_id, NoU64, NoU64, NoU64, "none", FALSE)

\* the else branch of `if let Some(dev) = self.devices.get(device_id)`
RemoveUnknown(device_id) ==
    /\ UNCHANGED <<manager, ghost>>
    /\ last' = RemoveReturn(FALSE, "Unknown", device_id, NoU64, NoU64, NoU64, "none", FALSE)

TryRemoveDevice(device_id, hv_ok) ==
    /\ lock = None
    /\ UNCHANGED <<tasks, lock, outer>>
    /\ IF device_id \notin DOMAIN devices
       THEN RemoveUnknown(device_id)
       ELSE
         LET dev == devices[device_id]
             dec == decrease_attach_count(dev.attach_count)
             det == Device_detach([dev EXCEPT !.attach_count = dec.count], hv_ok)
             inc == increase_attach_count(det.dev.attach_count)
         IN  /\ UNCHANGED <<block_driver, block_index, released_index>>
             /\ IF dec.err
                THEN /\ UNCHANGED <<devices, iter_order, ghost>>
                     /\ last' = RemoveReturn(FALSE, "NotAttached", device_id, dev.attach_count,
                                             dev.attach_count, NoU64, "none", FALSE)
                ELSE IF dec.skip
                THEN /\ devices' = [devices EXCEPT ![device_id].attach_count = dec.count]
                     /\ ghost' = [ghost EXCEPT ![device_id].net = @ - 1]
                     /\ UNCHANGED iter_order
                     /\ last' = RemoveReturn(TRUE, "", device_id, dev.attach_count,
                                             dec.count, NoU64, "none", FALSE)
                ELSE IF det.err
                THEN /\ devices' = [devices EXCEPT ![device_id] =
                                       [det.dev EXCEPT !.attach_count = inc.count]]
                     /\ UNCHANGED <<iter_order, ghost>>
                     /\ last' = RemoveReturn(FALSE,
                                             IF inc.err THEN "AttachOverflow" ELSE "DetachFailed",
                                             device_id, dev.attach_count, inc.count, NoU64,
                                             det.hv, TRUE)
                ELSE /\ devices' = MapRemove(devices, device_id)
                     /\ iter_order' = OrderAfterRemove(iter_order, device_id)
                     /\ ghost' = MapRemove(ghost, device_id)
                     /\ last' = RemoveReturn(TRUE, "", device_id, dev.attach_count,
                                             det.dev.attach_count, DriveIndex(dev), det.hv, TRUE)

Next ==
    \/ \E dev_info \in DevInfos : TryAddDevice(dev_info)
    \/ \E device_id \in Ids, hv_ok \in BOOLEAN : TryRemoveDevice(device_id, hv_ok)

Spec == Init /\ [][Next]_vars

(***************************************************************************)
(* handler_devices, for one device of the container's spec: the descriptor *)
(* is built by new_device_info and handed to try_add_device.  The agent    *)
(* device it pushes is generate_agent_device on the registry the add left. *)
(***************************************************************************)
HandlerDevices(d) ==
    LET info == new_device_info(d, None)
    IN  IF info.err
        THEN /\ lock = None
             /\ UNCHANGED <<manager, ghost, tasks, lock, outer>>
             /\ last' = AddReturn(FALSE, "InvalidSpec", "", NoDevInfo, NoU64, NoU64,
                                  NoU64, "none")
        ELSE TryAddDevice(info.dev_info)

NextHandler ==
    \/ \E d \in LinuxDevices : HandlerDevices(d)
    \/ \E device_id \in Ids, hv_ok \in BOOLEAN : TryRemoveDevice(device_id, hv_ok)

SpecHandler == Init /\ [][NextHandler]_vars

\* the same manager late in a sandbox's life, when block_index has reached 2^31 - 1
SpecChurned == InitChurned /\ [][Next]_vars

(***************************************************************************)
(* The attach counter, the ordinal allocator and the constructor on their  *)
(* own: each is called on the values it can be handed, as the unit tests   *)
(* of device/generic.rs call the counter.                                  *)
(***************************************************************************)
\* attach counts a device is set to: the small ones and those next to u64::MAX
CountSamples == {Zero, One, Two, U64Dec(U64Max), U64Max}

UnitId == "1f"
\* GenericDevice { attach_count: count, ..Default::default() }
UnitDevice(count) ==
    [GenericDevice_new([(CHOOSE d \in DevInfos : ~is_block(d) /\ d.bdf = None /\ d.major = 0)
                            EXCEPT !.id = UnitId])
        EXCEPT !.attach_count = count]

Ordinals(n) == {U64(i) : i \in 0..(n - 1)}
\* the lists unset_sandbox_block_index leaves: ordinals issued, sorted descending
ReleasedLists(n) ==
    {s \in UNION {[1..k -> Ordinals(n)] : k \in 0..n} :
        \A i \in 1..(Len(s) - 1) : U64Lt(s[i + 1], s[i])}

InitUnit ==
    /\ block_driver = VIRTIO_MMIO
    /\ \E count \in CountSamples : devices = (UnitId :> UnitDevice(count))
    /\ \E n \in 0..MaxOrdinal :
            /\ block_index = U64(n)
            /\ released_index \in ReleasedLists(n)
    /\ iter_order = <<UnitId>>
    /\ ghost = << >>
    /\ last = NoCall
    /\ tasks = [t \in Tasks |-> IdleTask]
    /\ lock = None
    /\ outer = [t \in Tasks |-> "idle"]

UnitReturn(op, ok, err, id, pre_count, count, index, skip, driver) ==
    [op |-> op, ok |-> ok, err |-> err, id |-> id, dev_info |-> NoDevInfo,
     pre_count |-> pre_count, count |-> count, index |-> index, hv |-> "none",
     detach |-> FALSE, pre_net |-> 0, skip |-> skip, driver |-> driver]

\* counts the unit calls go through: up to MaxAttach + 1, and the two at the top
CountInRange(count) ==
    U64Le(count, U64(MaxAttach + 1)) \/ U64Le(U64Dec(U64Max), count)

IncreaseAttachCount(id) ==
    LET pre == devices[id].attach_count
        r == increase_attach_count(pre)
    IN  /\ CountInRange(r.count)
        /\ devices' = [devices EXCEPT ![id].attach_count = r.count]
        /\ last' = UnitReturn("increase", ~r.err, "", id, pre, r.count, NoU64, r.skip, "")
        /\ UNCHANGED <<block_driver, block_index, released_index, iter_order, ghost,
                       tasks, lock, outer>>

DecreaseAttachCount(id) ==
    LET pre == devices[id].attach_count
        r == decrease_attach_count(pre)
    IN  /\ CountInRange(r.count)
        /\ devices' = [devices EXCEPT ![id].attach_count = r.count]
        /\ last' = UnitReturn("decrease", ~r.err, "", id, pre, r.count, NoU64, r.skip, "")
        /\ UNCHANGED <<block_driver, block_index, released_index, iter_order, ghost,
                       tasks, lock, outer>>

Acquire ==
    LET a == get_and_set_sandbox_block_index(block_index, released_index)
    IN  /\ U64Le(a.block_index, U64(MaxOrdinal))
        /\ block_index' = a.block_index
        /\ released_index' = a.released_index
        /\ last' = UnitReturn("acquire", TRUE, "", "", NoU64, NoU64, a.index, FALSE, "")
        /\ UNCHANGED <<block_driver, devices, iter_order, ghost, tasks, lock, outer>>

Release(index) ==
    /\ U64Lt(index, block_index)
    /\ \A i \in 1..Len(released_index) : released_index[i] # index
    /\ released_index' = unset_sandbox_block_index(released_index, index)
    /\ last' = UnitReturn("release", TRUE, "", "", NoU64, NoU64, index, FALSE, "")
    /\ UNCHANGED <<block_driver, devices, block_index, iter_order, ghost, tasks, lock, outer>>

NewManager(driver) ==
    LET m == DeviceManager_new(driver)
    IN  /\ UNCHANGED <<ghost, tasks, lock, outer>>
        /\ IF m.err
           THEN /\ UNCHANGED manager
                /\ last' = UnitReturn("new", FALSE, "UnsupportedBlockDriver", "", NoU64,
                                      NoU64, NoU64, FALSE, driver)
           ELSE /\ block_driver' = m.block_driver
                /\ devices' = m.devices
                /\ block_index' = m.block_index
                /\ released_index' = m.released_index
                /\ iter_order' = <<>>
                /\ last' = UnitReturn("new", TRUE, "", "", NoU64, NoU64, NoU64, FALSE,
                                      driver)

\* the i32 indexes get_virt_drive_name is called on: the first ones, those
\* where the name gets longer, the test vectors of utils.rs, i32::MAX, and
\* negative ones
I32Max == 2147483647
DriveIndexes ==
    (-1..MaxDriveIndex)
        \cup {675, 676, 701, 702, 703, 704, 18277, 18278, 475253, 475254, I32Max, -I32Max - 1}

DriveNameReturn(index, r) ==
    [op |-> "drive_name", ok |-> ~r.err, err |-> IF r.err THEN "DriveName" ELSE "",
     id |-> "", dev_info |-> NoDevInfo, pre_count |-> NoU64, count |-> NoU64,
     index |-> NoU64, hv |-> "none", detach |-> FALSE, pre_net |-> 0, skip |-> FALSE,
     driver |-> "", arg |-> index, name |-> r.name]

DriveName(index) ==
    /\ last' = DriveNameReturn(index, get_virt_drive_name(index))
    /\ UNCHANGED <<manager, ghost, tasks, lock, outer>>

\* the descriptors get_host_path is called on: every type, with and without a
\* container path
ResolverInputs ==
    [host_path : {""}, container_path : ContainerPaths \cup {""},
     dev_type : {"b", "c", "u", "p", "x"}, major : {8}, minor : Minors, id : {""},
     bdf : {None}, block_driver_option : {None}, pci_addr : {None}, virt_path : {None}]

GetHostPathReturn(dev_info, sysfs, r) ==
    [op |-> "get_host_path", ok |-> ~r.err, err |-> IF r.err THEN "Resolver" ELSE "",
     id |-> "", dev_info |-> NoDevInfo, pre_count |-> NoU64, count |-> NoU64,
     index |-> NoU64, hv |-> "none", detach |-> FALSE, pre_net |-> 0, skip |-> FALSE,
     driver |-> "", container_path |-> dev_info.container_path,
     dev_type |-> dev_info.dev_type, sysfs |-> sysfs, path |-> r.path]

GetHostPath(dev_info, sysfs) ==
    /\ last' = GetHostPathReturn(dev_info, sysfs, get_host_path(dev_info, sysfs))
    /\ UNCHANGED <<manager, ghost, tasks, lock, outer>>

\* the descriptors try_create_device is called on: both kinds, numbers that
\* are and are not (0, 0), with and without a "block-driver" option of the
\* caller's own
CreateInputs ==
    [host_path : HostPaths, container_path : ContainerPaths, dev_type : {"b", "c"},
     major : {0, 8}, minor : {0, 1}, id : {""}, bdf : {None},
     block_driver_option : {None, "nvdimm"}, pci_addr : {None}, virt_path : {None}]

CreateReturn(dev_info, sysfs, c) ==
    [op |-> "create", ok |-> c.err = "", err |-> c.err,
     id |-> IF c.err = "" THEN c.dev.id ELSE "", dev_info |-> NoDevInfo,
     pre_count |-> NoU64, count |-> NoU64, index |-> NoU64, hv |-> "none",
     detach |-> FALSE, pre_net |-> 0, skip |-> FALSE, driver |-> "",
     supplied |-> dev_info, sysfs |-> sysfs, resolved |-> c.dev_info,
     found |-> c.found, dev |-> c.dev]

\* try_create_device writes the caller's descriptor and returns the device; the
\* manager is written by try_add_device, after it
TryCreateDevice(dev_info, sysfs, draws) ==
    /\ last' = CreateReturn(dev_info, sysfs,
                    try_create_device(devices, iter_order, block_driver, dev_info,
                                      sysfs, draws))
    /\ UNCHANGED <<manager, ghost, tasks, lock, outer>>

NextUnit ==
    \/ \E id \in DOMAIN devices : IncreaseAttachCount(id)
    \/ \E id \in DOMAIN devices : DecreaseAttachCount(id)
    \/ Acquire
    \/ \E index \in Ordinals(MaxOrdinal) : Release(index)
    \/ \E driver \in BlockDrivers : NewManager(driver)
    \/ \E index \in DriveIndexes : DriveName(index)
    \/ \E dev_info \in ResolverInputs, sysfs \in Sysfs : GetHostPath(dev_info, sysfs)
    \/ \E dev_info \in CreateInputs, sysfs \in Sysfs :
            /\ sysfs \in SysfsFor(dev_info)
            /\ TryCreateDevice(dev_info, sysfs, CHOOSE d \in Draws : d[1] # d[2])

SpecUnit == InitUnit /\ [][NextUnit]_vars

(***************************************************************************)
(* device/vsock.rs: VsockConfig::new, which asks the kernel for a guest   *)
(* context id.  It does not touch the device manager.                     *)
(***************************************************************************)
VsockAttempts == 50

\* a u32 as two 16-bit limbs, most significant first
U32Limb == 65535
U32Max == <<U32Limb, U32Limb>>
NoCid == <<>>
\* rng.gen_range(3..=(u32::MAX)): the smallest, its neighbour, the largest
CidSamples == {<<0, 3>>, <<0, 4>>, U32Max}

\* the draws of the 50 attempts: the first n are one CID, the others another
VsockDraws ==
    {[k \in 1..VsockAttempts |-> IF k <= n THEN a ELSE b] :
        n \in {0, 1, VsockAttempts - 1, VsockAttempts}, a \in CidSamples, b \in CidSamples}

\* the attempt at which the ioctl fails with an error other than EADDRINUSE;
\* 0 for none
VsockFaults == {0, 1, 2, VsockAttempts}

\* a loop that takes every error of the ioctl for "in use"
RECURSIVE vsock_set_guest_cid_retry_all(_, _, _, _)
vsock_set_guest_cid_retry_all(draws, in_use, fault, k) ==
    IF k > VsockAttempts
    THEN [err |-> "NoFreeCid", guest_cid |-> NoCid, requests |-> VsockAttempts]
    ELSE IF fault = k \/ draws[k] \in in_use
    THEN vsock_set_guest_cid_retry_all(draws, in_use, fault, k + 1)
    ELSE [err |-> "", guest_cid |-> draws[k], requests |-> k]

\* the for loop from its k-th attempt on: Ok returns, EADDRINUSE goes on, any
\* other error returns it
RECURSIVE vsock_set_guest_cid(_, _, _, _)
vsock_set_guest_cid(draws, in_use, fault, k) ==
    IF k > VsockAttempts
    THEN [err |-> "NoFreeCid", guest_cid |-> NoCid, requests |-> VsockAttempts]
    ELSE IF fault = k
    THEN [err |-> "SetGuestCid", guest_cid |-> NoCid, requests |-> k]
    ELSE IF draws[k] \in in_use
    THEN vsock_set_guest_cid(draws, in_use, fault, k + 1)
    ELSE [err |-> "", guest_cid |-> draws[k], requests |-> k]

VsockConfig_new(open_ok, draws, in_use, fault) ==
    IF ~open_ok THEN [err |-> "Open", guest_cid |-> NoCid, requests |-> 0]
    ELSE vsock_set_guest_cid(draws, in_use, fault, 1)

VsockReturn(draws, in_use, fault, r) ==
    [op |-> "vsock", ok |-> r.err = "", err |-> r.err, id |-> "", dev_info |-> NoDevInfo,
     pre_count |-> NoU64, count |-> NoU64, index |-> NoU64, hv |-> "none",
     detach |-> FALSE, pre_net |-> 0, draws |-> draws, in_use |-> in_use,
     fault |-> fault, guest_cid |-> r.guest_cid, requests |-> r.requests]

VsockNew(open_ok, draws, in_use, fault) ==
    /\ last' = VsockReturn(draws, in_use, fault,
                           VsockConfig_new(open_ok, draws, in_use, fault))
    /\ UNCHANGED <<manager, ghost, tasks, lock, outer>>

NextVsock ==
    \E open_ok \in BOOLEAN, draws \in VsockDraws, in_use \in SUBSET CidSamples,
       fault \in VsockFaults :
        VsockNew(open_ok, draws, in_use, fault)

SpecVsock == Init /\ [][NextVsock]_vars

(***************************************************************************)
(* Queries on the registry.                                                *)
(***************************************************************************)
get_block_driver(driver) == driver

\* Option<String>: the virt_path of the stored record, None for an unknown id
get_device_guest_path(devs, id) ==
    IF id \in DOMAIN devs THEN devs[id].device_info.virt_path ELSE None

KATA_MMIO_BLK_DEV_TYPE == "mmioblk"
KATA_BLK_DEV_TYPE == "blk"

\* AgentDevice { container_path, ..Default::default() }
AgentDevice_default(container_path) ==
    [panic |-> FALSE, container_path |-> container_path, id |-> "", field_type |-> "",
     vm_path |-> ""]

\* get_device_by_id(..).unwrap() panics for an id that is not in the registry
generate_agent_device(devs, driver, device_id) ==
    IF device_id \notin DOMAIN devs
    THEN [AgentDevice_default("") EXCEPT !.panic = TRUE]
    ELSE LET base_info == devs[device_id].device_info
             device == AgentDevice_default(base_info.container_path)
         IN  IF driver = VIRTIO_MMIO /\ base_info.virt_path # None
             THEN [device EXCEPT !.id = device_id, !.field_type = KATA_MMIO_BLK_DEV_TYPE,
                                 !.vm_path = base_info.virt_path]
             ELSE IF driver = VIRTIO_BLOCK /\ base_info.pci_addr # None
             THEN [device EXCEPT !.id = device_id, !.field_type = KATA_BLK_DEV_TYPE,
                                 !.vm_path = base_info.pci_addr]
             ELSE device

(***************************************************************************)
(* add_device called by several tasks.  Each caller takes the write lock   *)
(* of RwLock<DeviceManager> and holds it over the whole of try_add_device, *)
(* the await of the hypervisor's answer included; a caller that is dropped *)
(* at that await runs no more code, and its lock guard is released.        *)
(***************************************************************************)
\* a write guard that is gone while the hypervisor answers
LockHeldBy_dropped(t) == None

\* the holder of the lock while its try_add_device awaits the hypervisor
LockHeldBy(t) == t

TaskResult(pc, ok, err, id, dev_info, first, index, hv) ==
    [pc |-> pc, ok |-> ok, err |-> err, id |-> id, dev_info |-> IdentityOf(dev_info),
     first |-> first, index |-> index, hv |-> hv]

\* try_add_device from its start to its return, or to the await of h.add_device
TaskBegin(t, dev_info) ==
    /\ tasks[t].pc = "idle"
    /\ lock = None
    /\ UNCHANGED <<block_driver, last, outer>>
    /\ \E sysfs \in SysfsFor(dev_info) :
       LET probe == try_create_device(devices, iter_order, block_driver, dev_info, sysfs, NoDraws)
           mints == probe.err # "Resolver" /\ probe.found = None
       IN  \E draws \in (IF mints THEN Draws ELSE {NoDraws}) :
           LET c == try_create_device(devices, iter_order, block_driver, dev_info, sysfs, draws)
               id == c.dev.id
               inc == increase_attach_count(c.dev.attach_count)
               dev == [c.dev EXCEPT !.attach_count = inc.count]
               alloc == get_and_set_sandbox_block_index(block_index, released_index)
               drive_name == get_virt_drive_name(AsI32(alloc.index))
               da == [index |-> alloc.index, drive_name |-> drive_name.name]
               att == Device_attach(dev, da, TRUE)
           IN  IF c.err # ""
               THEN /\ UNCHANGED <<manager, ghost, lock>>
                    /\ tasks' = [tasks EXCEPT ![t] =
                            TaskResult("returned", FALSE, c.err, "", NoDevInfo, FALSE,
                                       NoU64, "none")]
               ELSE IF inc.err
               THEN /\ UNCHANGED <<manager, ghost, lock>>
                    /\ tasks' = [tasks EXCEPT ![t] =
                            TaskResult("returned", FALSE, "AttachOverflow", id, c.dev_info,
                                       FALSE, NoU64, "none")]
               ELSE IF inc.skip
               THEN /\ devices' = [devices EXCEPT ![id].attach_count = inc.count]
                    /\ ghost' = [ghost EXCEPT ![id].net = @ + 1]
                    /\ UNCHANGED <<block_index, released_index, iter_order, lock>>
                    /\ tasks' = [tasks EXCEPT ![t] =
                            TaskResult("returned", TRUE, "", id, c.dev_info, FALSE,
                                       NoU64, "none")]
               ELSE /\ block_index' = alloc.block_index
                    /\ released_index' = alloc.released_index
                    /\ \E order \in OrderAfterInsert(iter_order, DOMAIN devices, id) :
                            iter_order' = order
                    /\ IF drive_name.err
                       THEN /\ devices' = MapInsert(devices, id, dev)
                            /\ ghost' = MapInsert(ghost, id, GhostOf(id))
                            /\ UNCHANGED lock
                            /\ tasks' = [tasks EXCEPT ![t] =
                                    TaskResult("returned", FALSE, "DriveName", id,
                                               c.dev_info, TRUE, alloc.index, "none")]
                       ELSE IF dev.kind = "Block"
                       THEN /\ devices' = MapInsert(devices, id,
                                            [dev EXCEPT !.drive.index = alloc.index])
                            /\ ghost' = MapInsert(ghost, id, GhostOf(id))
                            /\ lock' = LockHeldBy(t)
                            /\ tasks' = [tasks EXCEPT ![t] =
                                    TaskResult("attaching", FALSE, "", id, c.dev_info,
                                               TRUE, alloc.index, "none")]
                       ELSE /\ ~att.err
                            /\ devices' = MapInsert(devices, id, att.dev)
                            /\ ghost' = MapInsert(ghost, id, [GhostOf(id) EXCEPT !.net = @ + 1])
                            /\ UNCHANGED lock
                            /\ tasks' = [tasks EXCEPT ![t] =
                                    TaskResult("returned", TRUE, "", id, c.dev_info,
                                               TRUE, alloc.index, att.hv)]

\* the hypervisor answers h.add_device and try_add_device runs to its return
TaskAttachReturn(t, hv_ok) ==
    /\ tasks[t].pc = "attaching"
    /\ UNCHANGED <<block_driver, block_index, last, outer>>
    /\ lock' = None
    /\ LET id == tasks[t].id
           index == tasks[t].index
           da == [index |-> index, drive_name |-> get_virt_drive_name(AsI32(index)).name]
           att == BlockDevice_attach(devices[id], da, hv_ok)
           dec == decrease_attach_count(att.dev.attach_count)
       IN  IF ~att.err
           THEN /\ devices' = [devices EXCEPT ![id] = att.dev]
                /\ ghost' = [ghost EXCEPT ![id] = [GhostHv(@, att.hv) EXCEPT !.net = @ + 1]]
                /\ UNCHANGED <<released_index, iter_order>>
                /\ tasks' = [tasks EXCEPT ![t].pc = "returned", ![t].ok = TRUE,
                                          ![t].hv = att.hv]
           ELSE IF dec.err
           THEN /\ devices' = [devices EXCEPT ![id] = att.dev]
                /\ UNCHANGED <<released_index, iter_order, ghost>>
                /\ tasks' = [tasks EXCEPT ![t].pc = "returned", ![t].err = "NotAttached",
                                          ![t].hv = att.hv]
           ELSE /\ devices' = MapRemove(devices, id)
                /\ iter_order' = OrderAfterRemove(iter_order, id)
                /\ released_index' = unset_sandbox_block_index(released_index, index)
                /\ ghost' = MapRemove(ghost, id)
                /\ tasks' = [tasks EXCEPT ![t].pc = "returned", ![t].err = "AttachFailed",
                                          ![t].hv = att.hv]

\* the caller is dropped while it awaits the hypervisor
TaskCancel(t) ==
    /\ tasks[t].pc = "attaching"
    /\ tasks' = [tasks EXCEPT ![t].pc = "cancelled"]
    /\ lock' = None
    /\ UNCHANGED <<manager, ghost, last, outer>>

NextTasks ==
    \/ \E t \in Tasks, dev_info \in DevInfos : TaskBegin(t, dev_info)
    \/ \E t \in Tasks, hv_ok \in BOOLEAN : TaskAttachReturn(t, hv_ok)

SpecTasks == Init /\ [][NextTasks]_vars

NextCancel ==
    \/ NextTasks
    \/ \E t \in Tasks : TaskCancel(t)

SpecCancel == Init /\ [][NextCancel]_vars

(***************************************************************************)
(* rootfs/block_rootfs.rs and volume/block_volume.rs: a block device as the *)
(* rootfs or as a volume of a container.  Both add the device with the     *)
(* write lock and then read the block driver and the guest path of the     *)
(* device, each with a read lock of its own, into a Storage for the agent. *)
(***************************************************************************)
\* the guest path of the container's rootfs (do_get_guest_path(ROOTFS, cid, ..))
RootfsGuestPaths == {"/run/kata-containers/c1/rootfs"}
\* major and minor of st_rdev of a block special file
BlockMajors == {7, 8}
BlockMinors == {0, 1}

\* the GenericConfig literal of BlockRootfs::new
RootfsConfigs ==
    [host_path : HostPaths, container_path : RootfsGuestPaths, dev_type : {"b"},
     major : BlockMajors, minor : BlockMinors, id : {""}, bdf : {None},
     block_driver_option : {None}, pci_addr : {None}, virt_path : {None}]

\* the GenericConfig literal of BlockVolume::new: m.source, m.destination
VolumeConfigs ==
    [host_path : HostPaths, container_path : ContainerPaths, dev_type : {"b"},
     major : BlockMajors, minor : BlockMinors, id : {""}, bdf : {None},
     block_driver_option : {None}, pci_addr : {None}, virt_path : {None}]

\* storage.driver: the match on get_block_driver
storage_driver(driver) ==
    IF driver = VIRTIO_MMIO THEN KATA_MMIO_BLK_DEV_TYPE
    ELSE IF driver = VIRTIO_BLOCK THEN KATA_BLK_DEV_TYPE
    ELSE ""

\* the Storage both constructors fill: source stays String::default() when
\* get_device_guest_path returns None
block_storage(devs, driver, device_id) ==
    LET path == get_device_guest_path(devs, device_id)
    IN  [driver |-> storage_driver(get_block_driver(driver)),
         source |-> IF path # None THEN path ELSE ""]

\* the add of each; the Storage is block_storage on the registry the add left
BlockRootfs_new(config) == TryAddDevice(config)
BlockVolume_new(config) == TryAddDevice(config)

NextStorage ==
    \/ \E config \in RootfsConfigs : BlockRootfs_new(config)
    \/ \E config \in VolumeConfigs : BlockVolume_new(config)
    \/ \E device_id \in Ids, hv_ok \in BOOLEAN : TryRemoveDevice(device_id, hv_ok)

SpecStorage == Init /\ [][NextStorage]_vars


(***************************************************************************)
(* handler_devices as a task.  It takes the write lock for try_add_device, *)
(* gives it up when the id is returned, and takes the read lock for        *)
(* generate_agent_device; between the two any other task can take the      *)
(* write lock, a task that calls try_remove_device among them.             *)
(***************************************************************************)
\* new_device_info and, with the write lock, try_add_device
HandlerAdd(t, d) ==
    LET info == new_device_info(d, None)
    IN  IF info.err
        THEN /\ tasks[t].pc = "idle"
             /\ tasks' = [tasks EXCEPT ![t] =
                    TaskResult("returned", FALSE, "InvalidSpec", "", NoDevInfo, FALSE,
                               NoU64, "none")]
             /\ UNCHANGED <<manager, ghost, last, lock, outer>>
        ELSE TaskBegin(t, info.dev_info)

\* with the read lock, generate_agent_device(device_id): the push of the agent
\* device, or the panic of the unwrap
HandlerGenerate(t) ==
    /\ tasks[t].pc = "returned" /\ tasks[t].ok
    /\ lock = None
    /\ tasks' = [tasks EXCEPT ![t].pc =
            IF generate_agent_device(devices, block_driver, tasks[t].id).panic
            THEN "panicked" ELSE "pushed"]
    /\ UNCHANGED <<manager, ghost, last, lock, outer>>

HandlerTasks == {"t1", "t2"}

NextAgent ==
    \/ \E t \in HandlerTasks, d \in LinuxDevices : HandlerAdd(t, d)
    \/ \E t \in HandlerTasks, hv_ok \in BOOLEAN : TaskAttachReturn(t, hv_ok)
    \/ \E t \in HandlerTasks : HandlerGenerate(t)
    \/ \E device_id \in Ids, hv_ok \in BOOLEAN : TryRemoveDevice(device_id, hv_ok)

SpecAgent == Init /\ [][NextAgent]_vars

(***************************************************************************)
(* The three handlers of a container's resources as concurrent tasks, with *)
(* the locks each takes.  handler_rootfs takes the write lock of the       *)
(* rootfs list and keeps it until it returns; below it BlockRootfs::new    *)
(* takes the write lock of the device manager for try_add_device and then  *)
(* two read locks.  handler_volumes takes the same three locks of the      *)
(* device manager in BlockVolume::new and, with none of them held, the     *)
(* write lock of the volume list for the push.  handler_devices takes the  *)
(* write lock and then the read lock of the device manager.  The mutex of  *)
(* a device is taken and given back inside one statement of a function     *)
(* that runs with a lock of the device manager, so it is never waited for  *)
(* by a task that holds it; outer[t] is the position of task t.            *)
(***************************************************************************)
\* the handlers a container's task is called with
HandlersOf(t) ==
    IF t = "t1" THEN {"rootfs"}
    ELSE IF t = "t2" THEN {"rootfs", "volumes"}
    ELSE {"volumes", "devices"}

\* the holders of the write guard `inner` of RootFsResource;
\* first a rootfs guard that outlives the call that took it
RootfsLockHolders_leaked ==
    {t \in Tasks : outer[t] \in {"rootfs_locked", "rootfs_driver", "rootfs_share", "returned"}}

RootfsLockHolders ==
    {t \in Tasks : outer[t] \in {"rootfs_locked", "rootfs_driver", "rootfs_share"}}

\* a step of a handler that moves only the task's position
Move(t, from, to) ==
    /\ outer[t] = from
    /\ outer' = [outer EXCEPT ![t] = to]
    /\ UNCHANGED <<manager, ghost, last, tasks, lock>>

\* the return of a handler: the locals of the call are dropped
Return(t, from) ==
    /\ outer[t] = from
    /\ outer' = [outer EXCEPT ![t] = "returned"]
    /\ tasks' = [tasks EXCEPT ![t] = IdleTask]
    /\ UNCHANGED <<manager, ghost, last, lock>>

\* handler_rootfs is called with mounts that are not one layer: Err, no lock
HandlerRootfsUnsupported(t) ==
    /\ "rootfs" \in HandlersOf(t)
    /\ tasks[t].pc = "idle"
    /\ Return(t, "idle")

\* handler_rootfs is called with one layer, a block device (is_block) or not
HandlerRootfsCall(t, is_block_layer) ==
    /\ "rootfs" \in HandlersOf(t)
    /\ tasks[t].pc = "idle"
    /\ Move(t, "idle", IF is_block_layer THEN "rootfs_block_called" ELSE "rootfs_share_called")

\* let mut inner = self.inner.write().await
HandlerRootfsLock(t) ==
    /\ RootfsLockHolders = {}
    /\ \/ Move(t, "rootfs_block_called", "rootfs_locked")
       \/ Move(t, "rootfs_share_called", "rootfs_share")

\* not a block device: a share-fs rootfs is pushed, or Err; the guard is dropped
HandlerRootfsOther(t) == Return(t, "rootfs_share")

\* BlockRootfs::new: d.write().await.try_add_device(..)
HandlerRootfsAdd(t, config) == outer[t] = "rootfs_locked" /\ TaskBegin(t, config)

\* .await? of try_add_device: Err returns, the guard is dropped
HandlerRootfsFail(t) ==
    /\ tasks[t].pc = "returned" /\ ~tasks[t].ok
    /\ Return(t, "rootfs_locked")

\* match d.read().await.get_block_driver().await
HandlerRootfsDriver(t) ==
    /\ tasks[t].pc = "returned" /\ tasks[t].ok
    /\ lock = None
    /\ Move(t, "rootfs_locked", "rootfs_driver")

\* d.read().await.get_device_guest_path(..); return Ok(rootfs), the guard is dropped
HandlerRootfsSource(t) == lock = None /\ Return(t, "rootfs_driver")

\* handler_volumes is called with one mount, a block device (is_block_volume)
HandlerVolumesCall(t) ==
    /\ "volumes" \in HandlersOf(t)
    /\ tasks[t].pc = "idle"
    /\ Move(t, "idle", "volumes_called")

\* handler_volumes is called with a mount that is no block device: its volume
\* is built without the device manager
HandlerVolumesOther(t) ==
    /\ "volumes" \in HandlersOf(t)
    /\ tasks[t].pc = "idle"
    /\ Move(t, "idle", "volumes_built")

\* BlockVolume::new: d.write().await.try_add_device(..)
HandlerVolumesAdd(t, config) == outer[t] = "volumes_called" /\ TaskBegin(t, config)

\* .await? of try_add_device: Err returns
HandlerVolumesFail(t) ==
    /\ tasks[t].pc = "returned" /\ ~tasks[t].ok
    /\ Return(t, "volumes_called")

\* match d.read().await.get_block_driver().await
HandlerVolumesDriver(t) ==
    /\ tasks[t].pc = "returned" /\ tasks[t].ok
    /\ lock = None
    /\ Move(t, "volumes_called", "volumes_driver")

\* d.read().await.get_device_guest_path(..)
HandlerVolumesSource(t) == lock = None /\ Move(t, "volumes_driver", "volumes_built")

\* let mut inner = self.inner.write().await
HandlerVolumesLock(t) ==
    /\ \A u \in Tasks : outer[u] # "volumes_locked"
    /\ Move(t, "volumes_built", "volumes_locked")

\* inner.volumes.push(volume); the guard is dropped with the loop's body; Ok
HandlerVolumesPush(t) == Return(t, "volumes_locked")

\* handler_devices is called with one device
HandlerDevicesCall(t) ==
    /\ "devices" \in HandlersOf(t)
    /\ tasks[t].pc = "idle"
    /\ Move(t, "idle", "devices_called")

\* new_device_info(..)? and device_manager.write().await.try_add_device(..)
HandlerDevicesAdd(t, d) == outer[t] = "devices_called" /\ HandlerAdd(t, d)

\* the ? of try_add_device: Err returns
HandlerDevicesFail(t) ==
    /\ tasks[t].pc = "returned" /\ ~tasks[t].ok
    /\ Return(t, "devices_called")

\* device_manager.read().await.generate_agent_device(device_id)
HandlerDevicesGenerate(t) == outer[t] = "devices_called" /\ HandlerGenerate(t)

\* devices_agent.push(device); return Ok(())
HandlerDevicesReturn(t) == tasks[t].pc = "pushed" /\ Return(t, "devices_called")

\* the next step of task t in the handler it was called with, on the block
\* device 8:0 as a rootfs layer or a device and 8:1 as a mount; hv_ok is the
\* answer of the hypervisor to a pending h.add_device
HandlerStep(t) ==
    \/ HandlerRootfsLock(t) \/ HandlerRootfsOther(t)
    \/ \E config \in {c \in RootfsConfigs : c.major = 8 /\ c.minor = 0} :
            HandlerRootfsAdd(t, config)
    \/ HandlerRootfsFail(t) \/ HandlerRootfsDriver(t) \/ HandlerRootfsSource(t)
    \/ \E config \in {c \in VolumeConfigs : c.major = 8 /\ c.minor = 1} :
            HandlerVolumesAdd(t, config)
    \/ HandlerVolumesFail(t) \/ HandlerVolumesDriver(t) \/ HandlerVolumesSource(t)
    \/ HandlerVolumesLock(t) \/ HandlerVolumesPush(t)
    \/ \E d \in {x \in LinuxDevices : x.major = 8 /\ x.path # "" /\ x.type = "b"} :
            HandlerDevicesAdd(t, d)
    \/ HandlerDevicesFail(t) \/ HandlerDevicesGenerate(t) \/ HandlerDevicesReturn(t)
    \/ \E hv_ok \in BOOLEAN : TaskAttachReturn(t, hv_ok)

NextLocks ==
    \/ \E t \in Tasks : HandlerRootfsUnsupported(t)
    \/ \E t \in Tasks, is_block_layer \in BOOLEAN : HandlerRootfsCall(t, is_block_layer)
    \/ \E t \in Tasks : HandlerVolumesCall(t)
    \/ \E t \in Tasks : HandlerVolumesOther(t)
    \/ \E t \in Tasks : HandlerDevicesCall(t)
    \/ \E t \in Tasks : HandlerStep(t)

\* the tokio runtime polls a task that can run, its RwLock grants a free lock
\* to a task that waits for it, and the hypervisor answers every request
SpecLocks ==
    /\ Init
    /\ [][NextLocks]_vars
    /\ WF_vars(\E t \in Tasks : HandlerStep(t))

(***************************************************************************)
(* Properties.                                                             *)
(***************************************************************************)
Known(x) == x # NoU64
InReleased(index) == \E i \in 1..Len(released_index) : released_index[i] = index
InfoOf(id) == IdentityOf(devices[id].device_info)
NegativeNumbers(a) == a.major < 0 \/ a.minor < 0

\* C1: between the add that takes a Block device's count 0 -> 1 and the remove
\* that takes it 1 -> 0 the hypervisor gets exactly one add request for its id;
\* an add at count >= 1 and a remove at count >= 2 make no hypervisor call
C1_ExactlyOneHotplug ==
    /\ \A id \in DOMAIN devices :
            devices[id].kind = "Block" => ghost[id].hv_adds = 1
    /\ (last.op = "add" /\ Known(last.pre_count) /\ U64Le(One, last.pre_count))
            => last.hv = "none"
    /\ (last.op = "remove" /\ Known(last.pre_count) /\ U64Le(Two, last.pre_count))
            => last.hv = "none"

\* two descriptors share (major, minor), a BDF, or a non-empty host path
SharesIdentity(a, b) ==
    \/ a.major = b.major /\ a.minor = b.minor
    \/ a.bdf # None /\ a.bdf = b.bdf
    \/ a.host_path # "" /\ a.host_path = b.host_path

\* two descriptors are looked up by the same key, with the same value
SameProbeKey(a, b) ==
    \/ /\ ~NegativeNumbers(a) /\ ~NegativeNumbers(b)
       /\ a.major = b.major /\ a.minor = b.minor
    \/ /\ NegativeNumbers(a) /\ NegativeNumbers(b)
       /\ a.bdf # None /\ a.bdf = b.bdf
    \/ /\ NegativeNumbers(a) /\ NegativeNumbers(b)
       /\ a.bdf = None /\ b.bdf = None
       /\ a.host_path # "" /\ a.host_path = b.host_path

TwoAddsInARow == last.op = "add" /\ last.ok /\ last'.op = "add" /\ last'.ok

\* C2 as claimed: add(d1) then add(d2), with d1 and d2 sharing (major, minor) or a
\* BDF or a non-empty host path, return the same id and the second adds no record
C2_DedupOnAnySharedKey ==
    [][(TwoAddsInARow /\ SharesIdentity(last.dev_info, last'.dev_info))
            => (last'.id = last.id /\ DOMAIN devices' = DOMAIN devices)]_vars

\* C2 as amended: add(d1) then add(d2), both Ok, with d1 and d2 looked up by the
\* same key (non-negative (major, minor); else the BDF; else the host path) and
\* equal in it, return the same id and the second adds no record
C2_DedupOnSameProbeKey ==
    [][(TwoAddsInARow /\ SameProbeKey(last.dev_info, last'.dev_info))
            => (last'.id = last.id /\ DOMAIN devices' = DOMAIN devices)]_vars

\* an add returned the id of a record made for a descriptor with its probe key
C2_Witness ==
    /\ last.op = "add" /\ last.ok
    /\ Known(last.pre_count) /\ U64Le(One, last.pre_count)
    /\ SameProbeKey(last.dev_info, InfoOf(last.id))
    /\ last.dev_info # InfoOf(last.id)

\* C3 as claimed: no two records share a non-negative (major, minor), a BDF, or a
\* non-empty host path
C3_IdentityUnique ==
    \A a, b \in DOMAIN devices :
        a # b =>
            /\ ~(~NegativeNumbers(InfoOf(a)) /\ InfoOf(a).major = InfoOf(b).major
                    /\ InfoOf(a).minor = InfoOf(b).minor)
            /\ ~(InfoOf(a).bdf # None /\ InfoOf(a).bdf = InfoOf(b).bdf)
            /\ ~(InfoOf(a).host_path # "" /\ InfoOf(a).host_path = InfoOf(b).host_path)

\* C3 as amended: no two records are equal in the key both are looked up by
C3_ProbeKeyUnique ==
    \A a, b \in DOMAIN devices : a # b => ~SameProbeKey(InfoOf(a), InfoOf(b))

\* two records with one host path, kept apart by their device numbers
C3_Witness ==
    \E a, b \in DOMAIN devices :
        /\ a # b
        /\ InfoOf(a).host_path = InfoOf(b).host_path
        /\ ~SameProbeKey(InfoOf(a), InfoOf(b))

\* C4: the attach count of every record is the number of Ok adds minus the
\* number of Ok removes of its id
C4_CountIsNetAdds ==
    \A id \in DOMAIN devices : devices[id].attach_count = U64(ghost[id].net)

\* C5: with the hypervisor detaching, the remove that balances the last Ok add
\* returns Ok and takes the record out; the removes before it return Ok and
\* leave it in
C5_LastRemoveDestroys ==
    (last.op = "remove" /\ Known(last.pre_count) /\ last.hv # "remove_err") =>
        /\ last.pre_net = 1 => (last.ok /\ last.id \notin DOMAIN devices)
        /\ last.pre_net >= 2 => (last.ok /\ last.id \in DOMAIN devices)
        /\ last.pre_net >= 1

\* C6: an add whose hot-plug the hypervisor rejects returns the error, leaves the
\* id out of the registry and its ordinal in released_index, with the count at 0
C6_FailedHotplugRolledBack ==
    (last.op = "add" /\ last.hv = "add_err") =>
        /\ ~last.ok /\ last.err = "AttachFailed"
        /\ last.id \notin DOMAIN devices
        /\ InReleased(last.index)
        /\ last.count = Zero

C6_Witness == last.op = "add" /\ last.hv = "add_err" /\ DOMAIN devices # {}

\* C7: an add that returns an error leaves the ids of the registry and every
\* attach count as they were
C7_NoPartialStateOnError ==
    [][(last'.op = "add" /\ ~last'.ok) =>
            /\ DOMAIN devices' = DOMAIN devices
            /\ \A id \in DOMAIN devices :
                    devices'[id].attach_count = devices[id].attach_count]_vars

C9_UnknownIdRejected ==
    [][(last'.op = "remove" /\ last'.id \notin DOMAIN devices) =>
            /\ ~last'.ok /\ last'.err = "Unknown"
            /\ last'.hv = "none"
            /\ UNCHANGED <<devices, block_index, released_index>>]_vars

C9_Witness ==
    /\ last.op = "remove" /\ last.err = "Unknown"
    /\ DOMAIN devices # {} /\ released_index # <<>>

\* C10: a remove that takes a Block device out of the registry puts its ordinal
\* into released_index
C10_RemoveReleasesOrdinal ==
    (last.op = "remove" /\ last.ok /\ last.detach /\ Known(last.index))
        => InReleased(last.index)

\* C11: no two Block records of the registry hold the same index
C11_OrdinalsUnique ==
    \A a, b \in DOMAIN devices :
        (a # b /\ devices[a].kind = "Block" /\ devices[b].kind = "Block")
            => devices[a].drive.index # devices[b].drive.index

C13_RecycleBeforeFresh ==
    [][(last'.op = "acquire" /\ released_index # <<>>) =>
            /\ InReleased(last'.index)
            /\ block_index' = block_index
            /\ Len(released_index') = Len(released_index) - 1]_vars

\* the last released ordinal was handed out again, block_index being beyond it
C13_Witness ==
    /\ last.op = "acquire"
    /\ released_index = <<>>
    /\ U64Lt(U64Inc(last.index), block_index)

\* the ordinals in use or in the free list, and the one handed out last
IssuedOrdinals ==
    {released_index[i] : i \in 1..Len(released_index)}
        \cup {devices[id].drive.index : id \in {x \in DOMAIN devices : devices[x].kind = "Block"}}
        \cup (IF last.op = "add" /\ Known(last.index) THEN {last.index} ELSE {})

\* C14: no call makes block_index smaller, and block_index is at least every
\* ordinal that was issued
C14_BlockIndexMonotonic ==
    /\ [](\A index \in IssuedOrdinals : U64Le(index, block_index))
    /\ [][U64Le(block_index, block_index')]_vars

\* an ordinal went back to released_index and block_index stayed beyond it
C14_Witness ==
    /\ last.op = "add" /\ ~last.ok /\ InReleased(last.index)
    /\ U64Lt(last.index, block_index)

\* C15: increase_attach_count takes 0 to 1 with skip = false, k with
\* 1 <= k < u64::MAX to k + 1 with skip = true, and at u64::MAX returns an error
\* and leaves the count
C15_IncreaseAttachCount ==
    last.op = "increase" =>
        /\ devices[last.id].attach_count = last.count
        /\ last.pre_count = Zero =>
                (last.ok /\ ~last.skip /\ last.count = One)
        /\ (last.pre_count # Zero /\ last.pre_count # U64Max) =>
                (last.ok /\ last.skip /\ last.count = U64Inc(last.pre_count)
                    /\ U64Lt(last.pre_count, last.count))
        /\ last.pre_count = U64Max =>
                (~last.ok /\ last.count = U64Max)

C15_Witness == last.op = "increase" /\ last.pre_count = U64Max /\ ~last.ok

\* C16: decrease_attach_count at 0 returns an error and leaves the count at 0,
\* takes 1 to 0 with skip = false, and k >= 2 to k - 1 with skip = true
C16_DecreaseAttachCount ==
    last.op = "decrease" =>
        /\ devices[last.id].attach_count = last.count
        /\ U64Le(last.count, last.pre_count)
        /\ last.pre_count = Zero =>
                (~last.ok /\ last.count = Zero)
        /\ last.pre_count = One =>
                (last.ok /\ ~last.skip /\ last.count = Zero)
        /\ U64Le(Two, last.pre_count) =>
                (last.ok /\ last.skip /\ last.count = U64Dec(last.pre_count))

C16_Witness == last.op = "decrease" /\ last.pre_count = Zero /\ ~last.ok

\* C19: the constructor succeeds for "virtio-mmio" and for "virtio-blk" and
\* fails, with the unsupported-driver error, for any other block driver
C19_BothDriversAccepted ==
    last.op = "new" =>
        IF last.driver \in {VIRTIO_MMIO, VIRTIO_BLOCK}
        THEN last.ok /\ block_driver = last.driver
        ELSE ~last.ok /\ last.err = "UnsupportedBlockDriver"

\* C20: after the Ok first add of a block device whose block driver is not
\* "nvdimm" the stored virt_path is "/dev/" + the drive name of its ordinal, and
\* get_device_guest_path returns it
C20_GuestPathStored ==
    (/\ last.op = "add" /\ last.ok /\ last.pre_count = Zero
     /\ devices[last.id].kind = "Block"
     /\ devices[last.id].device_info.block_driver_option # "nvdimm")
        => /\ devices[last.id].device_info.virt_path
                = "/dev/" \o get_virt_drive_name(AsI32(last.index)).name
           /\ get_device_guest_path(devices, last.id)
                = "/dev/" \o get_virt_drive_name(AsI32(last.index)).name

\* the calls that came back, and those that came back Ok
Finished(t) == tasks[t].pc = "returned" /\ tasks[t].dev_info # NoDevInfo
OkTask(t) == Finished(t) /\ tasks[t].ok
\* every call made so far was made for one identity
OneIdentity ==
    \A t, u \in Tasks :
        (tasks[t].dev_info # NoDevInfo /\ tasks[u].dev_info # NoDevInfo)
            => SameProbeKey(tasks[t].dev_info, tasks[u].dev_info)

C18_CancelRollsBack ==
    \A t \in Tasks :
        tasks[t].pc = "cancelled" =>
            /\ tasks[t].id \notin DOMAIN devices
            /\ InReleased(tasks[t].index)

\* C21: generate_agent_device(id) carries the record's container_path; under
\* "virtio-mmio" with virt_path set it has the id, type "mmioblk" and vm_path =
\* virt_path, under "virtio-blk" with pci_addr set the id, type "blk" and vm_path =
\* pci_addr, and otherwise id, type and vm_path are empty; for a block device
\* just attached under virtio-mmio it has type "mmioblk" and a vm_path
C21_AgentDeviceOfAttachedBlock ==
    /\ \A id \in DOMAIN devices :
        LET info == devices[id].device_info
            device == generate_agent_device(devices, block_driver, id)
        IN  /\ ~device.panic
            /\ device.container_path = info.container_path
            /\ (block_driver = VIRTIO_MMIO /\ info.virt_path # None) =>
                    (device.id = id /\ device.field_type = "mmioblk"
                        /\ device.vm_path = info.virt_path)
            /\ (block_driver = VIRTIO_BLOCK /\ info.pci_addr # None) =>
                    (device.id = id /\ device.field_type = "blk"
                        /\ device.vm_path = info.pci_addr)
            /\ (~(block_driver = VIRTIO_MMIO /\ info.virt_path # None)
                    /\ ~(block_driver = VIRTIO_BLOCK /\ info.pci_addr # None)) =>
                    (device.id = "" /\ device.field_type = "" /\ device.vm_path = "")
    /\ (/\ last.op = "add" /\ last.ok /\ last.pre_count = Zero
        /\ devices[last.id].kind = "Block"
        /\ block_driver = VIRTIO_MMIO) =>
            LET device == generate_agent_device(devices, block_driver, last.id)
            IN  device.field_type = "mmioblk" /\ device.vm_path # ""

\* the rendering as the specification words it: prepend the letter a + (n mod 26)
\* and set n := n / 26 - 1, until n < 0
RECURSIVE BiasedBase26(_, _)
BiasedBase26(n, suffix) ==
    IF n < 0 THEN suffix
    ELSE BiasedBase26((n \div 26) - 1, <<Letters[(n % 26) + 1]>> \o suffix)

RECURSIVE ConcatLetters(_)
ConcatLetters(letters) ==
    IF letters = <<>> THEN "" ELSE letters[1] \o ConcatLetters(Tail(letters))

\* the index a suffix stands for, read as a bijective base-26 numeral
LetterValue(letter) == (CHOOSE k \in 1..26 : Letters[k] = letter) - 1
RECURSIVE DecodeLetters(_, _)
DecodeLetters(letters, value) ==
    IF letters = <<>> THEN value
    ELSE DecodeLetters(Tail(letters), (value + 1) * 26 + LetterValue(letters[1]))

DriveNameVectors ==
    {<<0, "vda">>, <<25, "vdz">>, <<26, "vdaa">>, <<27, "vdab">>, <<704, "vdaac">>,
     <<18277, "vdzzz">>}

\* C22: for every index >= 0 get_virt_drive_name returns "vd" followed by the
\* biased base-26 rendering of the index (which reads back as the index), and
\* 0, 25, 26, 27, 704, 18277 give vda, vdz, vdaa, vdab, vdaac, vdzzz
C22_DriveNameBiasedBase26 ==
    (last.op = "drive_name" /\ last.arg >= 0) =>
        /\ last.ok
        /\ last.name = "vd" \o ConcatLetters(BiasedBase26(last.arg, <<>>))
        /\ DecodeLetters(BiasedBase26(last.arg, <<>>), -1) = last.arg
        /\ \A v \in DriveNameVectors : v[1] = last.arg => last.name = v[2]

\* the name of an index that takes three letters was computed
C22_Witness == last.op = "drive_name" /\ last.arg = 704 /\ last.name = "vdaac"

\* a descriptor add_device must refuse
InvalidSpec(d) == d.type \notin {"c", "u", "b", "p"} \/ d.path = ""

\* C23: an add with a descriptor whose type is not one of c, u, b, p, or whose
\* path is empty, fails with the invalid-spec error and leaves the registry,
\* block_index and released_index as they were, with no hypervisor call
C23_InvalidSpecRejected ==
    [][\A d \in LinuxDevices :
        (InvalidSpec(d) /\ HandlerDevices(d)) =>
            /\ ~last'.ok /\ last'.err = "InvalidSpec" /\ last'.hv = "none"
            /\ devices' = devices
            /\ block_index' = block_index
            /\ released_index' = released_index
            /\ ghost' = ghost]_vars

\* a descriptor of type "x" was refused by a manager that holds a record
C23_Witness ==
    /\ last.op = "add" /\ last.err = "InvalidSpec"
    /\ DOMAIN devices # {}

\* C24: for a non-empty container_path the resolver returns "" for a type other
\* than c, u, b; container_path when the uevent file does not exist; "/dev/" +
\* DEVNAME when the file has a DEVNAME; and an error when the file has none, on
\* another stat error, and when container_path is empty
C24_ResolverOutcome ==
    last.op = "get_host_path" =>
        IF last.container_path = "" THEN ~last.ok
        ELSE IF last.dev_type \notin {"c", "u", "b"} THEN last.ok /\ last.path = ""
        ELSE IF last.sysfs.stat = "NotFound"
        THEN last.ok /\ last.path = last.container_path
        ELSE IF last.sysfs.stat = "Ok" /\ last.sysfs.devname # None
        THEN last.ok /\ last.path = "/dev/" \o last.sysfs.devname
        ELSE ~last.ok

\* a character device without a uevent file passed through
C24_Witness ==
    /\ last.op = "get_host_path" /\ last.dev_type = "c"
    /\ last.sysfs.stat = "NotFound" /\ last.path = "/dev/xvda"

\* C25: new_device_id returns the first of its 5 draws that is not a key of
\* `devices`, never a key that is, and fails when all 5 are keys; an add that
\* fails so changes no state, and an add that makes a record leaves every
\* record that was there as it was
C25_MintedIdIsFresh ==
    /\ [](\A draws \in Draws :
            LET r == new_device_id(devices, draws)
            IN  /\ r.err <=> \A k \in 1..5 : draws[k] \in DOMAIN devices
                /\ ~r.err =>
                    /\ r.id \notin DOMAIN devices
                    /\ \E k \in 1..5 :
                        /\ draws[k] = r.id
                        /\ \A j \in 1..(k - 1) : draws[j] \in DOMAIN devices)
    /\ [][last'.op = "add" =>
            /\ last'.err = "IdExhausted" =>
                (manager' = manager /\ ghost' = ghost /\ last'.hv = "none")
            /\ (last'.id # "" /\ last'.pre_count = Zero) =>
                /\ last'.id \notin DOMAIN devices
                /\ \A id \in DOMAIN devices :
                    id \in DOMAIN devices' /\ devices'[id] = devices[id]]_vars

\* an add found both ids taken, and failed
C25_Witness ==
    /\ last.op = "add" /\ last.err = "IdExhausted"
    /\ DOMAIN devices = Ids

\* C26: every ordinal below block_index is the index of exactly one record or
\* is in released_index, and not both: no ordinal that was issued is lost
C26_OrdinalsAccounted ==
    \A o \in Ordinals(MaxBlockIndex + 1) :
        U64Lt(o, block_index) =>
            LET holders == {id \in DOMAIN devices : DriveIndex(devices[id]) = o}
            IN  \/ Cardinality(holders) = 1 /\ ~InReleased(o)
                \/ holders = {} /\ InReleased(o)

\* the records the one search made for a descriptor can find
ProbeMatches(devs, d) ==
    IF d.major >= 0 /\ d.minor >= 0
    THEN {id \in DOMAIN devs : /\ devs[id].device_info.major = d.major
                               /\ devs[id].device_info.minor = d.minor}
    ELSE IF d.bdf # None
    THEN {id \in DOMAIN devs : devs[id].device_info.bdf = d.bdf}
    ELSE {id \in DOMAIN devs : devs[id].device_info.host_path = d.host_path}

\* C27: an add searches by one key alone: by (major, minor) when both are >= 0,
\* else by bdf when it is set, else by host_path; it returns a record of that
\* search when there is one and makes a new record when there is none, whatever
\* the other keys would have found
C27_ProbeOrderExclusive ==
    [][(last'.op = "add" /\ last'.ok) =>
            LET matches == ProbeMatches(devices, last'.dev_info)
            IN  IF matches = {}
                THEN last'.id \notin DOMAIN devices /\ last'.pre_count = Zero
                ELSE last'.id \in matches /\ last'.pre_count # Zero]_vars

\* a descriptor with numbers got a record of its own although a record with its
\* host_path was there
C27_Witness ==
    /\ last.op = "add" /\ last.ok /\ last.pre_count = Zero
    /\ last.dev_info.major >= 0 /\ last.dev_info.minor >= 0
    /\ \E id \in DOMAIN devices \ {last.id} :
            devices[id].device_info.host_path = last.dev_info.host_path

\* C28: an add whose lookup finds a record changes that record's attach count,
\* which grows by one, and nothing else: the keys of `devices`, block_index,
\* released_index, the record's index and virt_path stay, no id is minted and
\* the hypervisor is not called
C28_DedupAddOnlyCounts ==
    [][(last'.op = "add" /\ last'.ok /\ ProbeMatches(devices, last'.dev_info) # {}) =>
            /\ last'.id \in DOMAIN devices
            /\ devices' = [devices EXCEPT ![last'.id].attach_count = U64Inc(@)]
            /\ block_index' = block_index
            /\ released_index' = released_index
            /\ iter_order' = iter_order
            /\ last'.hv = "none"
            /\ ghost'[last'.id].hv_adds = ghost[last'.id].hv_adds]_vars

\* a block device with an ordinal and a hot-plug behind it was added again
C28_Witness ==
    /\ last.op = "add" /\ last.ok /\ last.pre_count = One
    /\ devices[last.id].kind = "Block"
    /\ devices[last.id].attach_count = Two
    /\ ghost[last.id].hv_adds = 1

\* C29: released_index is in strictly descending order, so that no ordinal is
\* in it twice, and every ordinal in it is smaller than block_index
C29_ReleasedDescendingBelowIndex ==
    /\ \A i \in 1..(Len(released_index) - 1) :
            U64Lt(released_index[i + 1], released_index[i])
    /\ \A i \in 1..Len(released_index) : U64Lt(released_index[i], block_index)

\* a failed hot-plug put back its ordinal, which was not the first one issued
C29_Witness ==
    /\ last.op = "add" /\ last.err = "AttachFailed"
    /\ released_index = <<last.index>>
    /\ last.index # Zero
    /\ DOMAIN devices # {}

C31_KindByDevType ==
    /\ \A id \in DOMAIN devices :
            devices[id].kind = "Block" <=> devices[id].device_info.dev_type = "b"
    /\ (last.op = "create" /\ last.ok /\ last.found = None) =>
            /\ last.dev.kind = "Block" <=> last.supplied.dev_type = "b"
            /\ last.dev.kind = "Block" =>
                    last.dev.device_info.block_driver_option = block_driver
            /\ last.dev.kind = "Generic" =>
                    last.dev.device_info.block_driver_option
                        = last.supplied.block_driver_option

\* a block device was made from a descriptor that named another block driver
C31_Witness ==
    /\ last.op = "create" /\ last.ok /\ last.found = None
    /\ last.supplied.dev_type = "b" /\ last.supplied.block_driver_option = "nvdimm"
    /\ last.dev.kind = "Block"
    /\ last.dev.device_info.block_driver_option = VIRTIO_MMIO

\* C32: the host_path of the descriptor is replaced by the resolver's result
\* exactly when major or minor is not 0; for (0, 0) the resolver is not asked,
\* and the host_path the caller gave goes to the lookup and into the record
C32_ResolverTrigger ==
    (last.op = "create") =>
        IF last.supplied.major # 0 \/ last.supplied.minor # 0
        THEN LET path == get_host_path(last.supplied, last.sysfs)
             IN  /\ last.ok <=> ~path.err
                 /\ last.ok => last.resolved.host_path = path.path
        ELSE /\ last.ok
             /\ last.resolved.host_path = last.supplied.host_path
             /\ last.found = None =>
                    last.dev.device_info.host_path = last.supplied.host_path

\* minor alone was not 0, and the resolver's path replaced the caller's
C32_Witness ==
    /\ last.op = "create" /\ last.ok
    /\ last.supplied.major = 0 /\ last.supplied.minor = 1
    /\ last.sysfs.devname # None
    /\ last.resolved.host_path = "/dev/sda"
    /\ last.resolved.host_path # last.supplied.host_path

\* C33: get_virt_drive_name fails for every negative index and returns a name
\* for every other index; the name has "vd" and a suffix of 1 to 30 letters
C33_DriveNameDomain ==
    last.op = "drive_name" =>
        IF last.arg < 0
        THEN ~last.ok /\ last.name = ""
        ELSE /\ last.ok
             /\ Len(last.name) >= Len("vd") + 1
             /\ Len(last.name) <= Len("vd") + 30
             /\ Len(last.name) <= 32

\* the largest i32 has a name, of 7 letters
C33_Witness ==
    /\ last.op = "drive_name"
    /\ last.arg = I32Max /\ last.ok /\ Len(last.name) = 9

\* a CID of the range 3..=u32::MAX
CidInRange(cid) ==
    /\ Len(cid) = 2
    /\ \A i \in 1..2 : cid[i] >= 0 /\ cid[i] <= 65535
    /\ cid[1] > 0 \/ cid[2] >= 3

\* the answer of the kernel to the k-th request of the last call
VsockAnswer(k) ==
    IF last.fault = k THEN "error"
    ELSE IF last.draws[k] \in last.in_use THEN "in_use" ELSE "ok"

\* C34: VsockConfig::new makes at most 50 requests, each with a CID of
\* 3..=u32::MAX; every request but the last was answered "in use"; it returns
\* the CID of the first request the kernel accepts, fails at the first other
\* error, and fails with the no-free-CID error after 50 answers "in use"
C34_VsockCidSelection ==
    (last.op = "vsock" /\ last.err # "Open") =>
        /\ last.requests >= 1 /\ last.requests <= 50
        /\ \A k \in 1..last.requests : CidInRange(last.draws[k])
        /\ \A k \in 1..(last.requests - 1) : VsockAnswer(k) = "in_use"
        /\ last.ok <=> VsockAnswer(last.requests) = "ok"
        /\ last.ok => last.guest_cid = last.draws[last.requests]
        /\ last.err = "SetGuestCid" <=> VsockAnswer(last.requests) = "error"
        /\ last.err = "NoFreeCid" <=>
                (last.requests = 50 /\ \A k \in 1..50 : VsockAnswer(k) = "in_use")

\* 49 requests found their CID in use and the 50th was accepted
C34_Witness ==
    /\ last.op = "vsock" /\ last.ok
    /\ last.requests = 50
    /\ last.guest_cid = U32Max

\* C35: get_block_driver returns the driver the manager was constructed with,
\* "virtio-mmio", after every add and remove, failed ones included, and no call
\* writes block_driver
C35_BlockDriverFixed ==
    /\ [](get_block_driver(block_driver) = VIRTIO_MMIO)
    /\ [][block_driver' = block_driver]_vars

\* adds and removes went by, the last of them a remove the hypervisor refused
C35_Witness ==
    /\ last.op = "remove" /\ ~last.ok /\ last.detach
    /\ Cardinality(DOMAIN devices) = 2
    /\ get_block_driver(block_driver) = VIRTIO_MMIO

\* C36: generate_agent_device is called with an id that is in `devices`, under
\* every interleaving of handler_devices with other tasks, a try_remove_device
\* of the same id between the add and the read among them: the unwrap of
\* get_device_by_id never panics
C36_AgentDeviceIdPresent ==
    \A t \in Tasks :
        /\ tasks[t].pc # "panicked"
        /\ (tasks[t].pc = "returned" /\ tasks[t].ok) => tasks[t].id \in DOMAIN devices

\* C37: after BlockRootfs::new or BlockVolume::new returned Ok under
\* "virtio-mmio" the Storage has the driver "mmioblk" and, as its source, the
\* guest path of the device: "/dev/" + the drive name of its ordinal, never ""
C37_StorageSourceIsGuestPath ==
    (last.op = "add" /\ last.ok /\ block_driver = VIRTIO_MMIO) =>
        LET storage == block_storage(devices, block_driver, last.id)
        IN  /\ storage.driver = "mmioblk"
            /\ storage.source # ""
            /\ storage.source
                = "/dev/" \o get_virt_drive_name(AsI32(devices[last.id].drive.index)).name


\* a task whose handler was called and has not returned
Called(t) == outer[t] \notin {"idle", "returned"}

\* C38: concurrent handler_rootfs, handler_volumes and handler_devices never
\* reach a state in which a call is pending and no task can take a step, and
\* every call returns when the hypervisor answers every request.
C38_HandlersReturn ==
    /\ []((\E t \in Tasks : Called(t)) => \E t \in Tasks : ENABLED HandlerStep(t))
    /\ \A t \in Tasks : Called(t) ~> (outer[t] = "returned")
\* a task waits for the rootfs list that another holds while that one waits
\* for the device manager, whose write lock a third holds over an attach
C38_Witness ==
    \E t, u, w \in Tasks :
        /\ outer[t] = "rootfs_block_called"
        /\ outer[u] = "rootfs_locked" /\ tasks[u].pc = "idle"
        /\ lock = w /\ tasks[w].pc = "attaching"

====
